---- MODULE Spec2Model ----
(***************************************************************************)
(* Engine-volume build cache of action-dagger: one job, made of the main   *)
(* phase (runAction: binary acquisition, setupDaggerCache, build command)  *)
(* and the post phase (postAction: saveDaggerCache), together with the     *)
(* backup pipeline, the timeout timer and the signal handlers that run     *)
(* concurrently with saveDaggerCache.                                      *)
(*                                                                         *)
(* Strings are sequences of atoms; the atom "-" is the hyphen, every other *)
(* atom stands for a run of characters without a hyphen.  Byte counts are  *)
(* kept in KiB so that 3 GiB fits the checker's integers.                  *)
(***************************************************************************)
EXTENDS Integers, Sequences, FiniteSets, TLC

VARIABLES
    inputs,        \* parseInputs(): cacheBuilds, cacheKey, cacheCompression, cacheTimeoutMinutes
    runId,         \* process.env.GITHUB_RUN_ID ("" when unset)
    pc,            \* position of the job: main phase, then post phase
    failed,        \* core.setFailed has been called
    exitCode,      \* exit code of the build command (-1 before it ran)
    store,         \* keys present in the remote cache store
    files,         \* archive paths that exist on disk
    complete,      \* archive paths holding a completely written archive
    volume,        \* state of the volume dagger-engine-vol
    engine,        \* container named dagger-engine.dev
    exported,      \* DAGGER_RUNNER_HOST has been exported
    jobState,      \* core.saveState / core.getState
    restoredKey,   \* setupDaggerCache: const restoredKey
    post,          \* postAction: cacheKey, cacheTimeoutMinutes, compressionLevel handed to saveDaggerCache
    cachePath,     \* saveDaggerCache: let cachePath
    disk,          \* saveDaggerCache: what df did and const availableSpace (KiB)
    bk,            \* backupEngineVolume activation: pc, isCancelled, archivePath, level, error
    handlers,      \* signals that have the backup's signalHandler registered
    signals,       \* number of signals delivered so far
    alive,         \* the post process has not been terminated by a signal
    timer,         \* withTimeout's timer: "none", "pending", "fired"
    log,           \* calls made so far, in order
    binaryInfo,    \* runAction: const binaryInfo (the result of getBinary)
    outputs,       \* core.setOutput: the cache-hit output ("unset" before setOutputs)
    fetched,       \* format of the archive the remote fetch delivered ("none" before a hit)
    call           \* one call of a key-derivation or engine function: arguments and results

vars == <<inputs, runId, pc, failed, exitCode, store, files, complete, volume,
          engine, exported, jobState, restoredKey, post, cachePath, disk, bk,
          handlers, signals, alive, timer, log, binaryInfo, outputs, fetched, call>>

----
\* Bounds of the model

\* number of interrupt/termination signals delivered during one backup
MaxSignals == 2

\* values of the cache-compression input that are explored
Levels == {0, 3}

\* values of the cache-timeout-minutes input that are explored
Timeouts == {0, 10}

----
\* Strings

HYPHEN == "-"

NoKey == <<>>

\* mutant: the first hyphen instead of the last (indexOf)
LastIndexOf_First(key) ==
    LET idx == {i \in 1..Len(key) : key[i] = HYPHEN}
    IN  IF idx = {} THEN -1
        ELSE (CHOOSE i \in idx : \A j \in idx : i <= j) - 1

\* key.lastIndexOf("-"): 0-based index of the last hyphen, -1 when there is none
LastIndexOf(key) ==
    LET idx == {i \in 1..Len(key) : key[i] = HYPHEN}
    IN  IF idx = {} THEN -1
        ELSE (CHOOSE i \in idx : \A j \in idx : j <= i) - 1

\* key.substring(0, n)
Substring0(key, n) == SubSeq(key, 1, n)

\* the value JavaScript's NaN is modelled by
NaN == -1000000

\* n.toString() for an integer n >= 0 or NaN
RECURSIVE toString(_)
toString(n) ==
    LET d == <<"0", "1", "2", "3", "4", "5", "6", "7", "8", "9">>[(n % 10) + 1]
    IN  IF n = NaN THEN <<"NaN">>
        ELSE IF n < 10 THEN <<d>> ELSE toString(n \div 10) \o <<d>>

DigitValue(c) ==
    CASE c = "0" -> 0 [] c = "1" -> 1 [] c = "2" -> 2 [] c = "3" -> 3 [] c = "4" -> 4
      [] c = "5" -> 5 [] c = "6" -> 6 [] c = "7" -> 7 [] c = "8" -> 8 [] c = "9" -> 9
      [] OTHER -> -1

\* parseInt(str, 10) of a string without leading blanks: an optional minus
\* sign, then the value of the longest prefix of digits, NaN when that prefix
\* is empty
RECURSIVE ParseDigits(_, _, _)
ParseDigits(str, i, acc) ==
    IF i > Len(str) \/ DigitValue(str[i]) = -1 THEN acc
    ELSE ParseDigits(str, i + 1, acc * 10 + DigitValue(str[i]))

parseInt(str) ==
    IF str = <<>> THEN NaN
    ELSE IF str[1] = HYPHEN
    THEN IF Len(str) < 2 \/ DigitValue(str[2]) = -1 THEN NaN
         ELSE 0 - ParseDigits(str, 2, 0)
    ELSE IF DigitValue(str[1]) = -1 THEN NaN
    ELSE ParseDigits(str, 1, 0)

\* Math.min and Math.max of two numbers: NaN when either is NaN
MathMin(a, b) == IF a = NaN \/ b = NaN THEN NaN ELSE IF a < b THEN a ELSE b

MathMax(a, b) == IF a = NaN \/ b = NaN THEN NaN ELSE IF a > b THEN a ELSE b

\* str.trim() on a line: blanks removed at both ends
RECURSIVE TrimLine(_)
TrimLine(line) ==
    IF line = <<>> THEN line
    ELSE IF Head(line) = " " THEN TrimLine(Tail(line))
    ELSE IF line[Len(line)] = " " THEN TrimLine(SubSeq(line, 1, Len(line) - 1))
    ELSE line

\* stdout.trim().split("\n") on an output given as its lines: blank lines
\* removed at both ends (an empty output splits into one empty line)
RECURSIVE TrimSplit(_)
TrimSplit(out) ==
    IF out = <<>> THEN << <<>> >>
    ELSE IF TrimLine(Head(out)) = <<>> THEN TrimSplit(Tail(out))
    ELSE IF TrimLine(out[Len(out)]) = <<>> THEN TrimSplit(SubSeq(out, 1, Len(out) - 1))
    ELSE out

IsPrefix(p, k) == Len(p) <= Len(k) /\ SubSeq(k, 1, Len(p)) = p

\* str.endsWith(suffix)
EndsWith(str, suffix) ==
    Len(suffix) <= Len(str) /\ SubSeq(str, Len(str) - Len(suffix) + 1, Len(str)) = suffix

----
\* cache.ts

DEFAULT_CACHE_PREFIX == <<"dagger", "-", "v1">>

CACHE_ARCHIVE_NAME_TAR == <<"dagger-engine-state", ".tar">>

CACHE_ARCHIVE_NAME_ZSTD == <<"dagger-engine-state", ".tar", ".zst">>

\* mutant: one factor of 1024 dropped from the threshold (3 MiB)
MIN_REQUIRED_SPACE_3MiB == 3 * 1024

\* 3 * 1024 * 1024 * 1024 bytes, in KiB
MIN_REQUIRED_SPACE == 3 * 1024 * 1024

Platform == <<"linux">>

Arch == <<"x64">>

\* mutant: the upper clamp is missing
parseCompression_NoUpperClamp(raw) ==
    MathMax(0, parseInt(IF raw = <<>> THEN <<"0">> ELSE raw))

\* parse-inputs.parseInputs: cacheCompression from the cache-compression input
parseCompression(raw) ==
    MathMax(0, MathMin(19, parseInt(IF raw = <<>> THEN <<"0">> ELSE raw)))

\* postAction: the compression level read back from the job state
readCompression(compressionLevelStr, cacheCompression) ==
    IF compressionLevelStr # <<>> THEN parseInt(compressionLevelStr) ELSE cacheCompression

getCacheArchivePath(compressionLevel) ==
    IF compressionLevel = 0 THEN CACHE_ARCHIVE_NAME_TAR ELSE CACHE_ARCHIVE_NAME_ZSTD

\* mutant: the default key does not carry the run id
getCacheKey_NoRunId(customKey, rid) ==
    IF customKey # NoKey
    THEN customKey
    ELSE DEFAULT_CACHE_PREFIX \o <<HYPHEN>> \o Platform \o <<HYPHEN>> \o Arch

\* mutant: GITHUB_RUN_ID is not read, the fallback is always used
getCacheKey_UnknownRunId(customKey, rid) ==
    IF customKey # NoKey
    THEN customKey
    ELSE DEFAULT_CACHE_PREFIX \o <<HYPHEN>> \o Platform \o <<HYPHEN>> \o Arch
         \o <<HYPHEN>> \o <<"unknown">>

\* getCacheKey(customKey) with process.env.GITHUB_RUN_ID = rid
getCacheKey(customKey, rid) ==
    IF customKey # NoKey
    THEN customKey
    ELSE DEFAULT_CACHE_PREFIX \o <<HYPHEN>> \o Platform \o <<HYPHEN>> \o Arch
         \o <<HYPHEN>> \o (IF rid # <<>> THEN rid ELSE <<"unknown">>)

\* mutant: the restore key keeps the hyphen it was cut at
getRestoreKeys_KeepsHyphen(key) ==
    LET lastDash == LastIndexOf(key)
    IN  IF lastDash = -1 THEN <<>> ELSE << Substring0(key, lastDash + 1) >>

getRestoreKeys(key) ==
    LET lastDash == LastIndexOf(key)
    IN  IF lastDash = -1 THEN <<>> ELSE << Substring0(key, lastDash) >>

----
\* Inputs that are explored

RunIds == { <<"42">> }

CustomKeys == { NoKey, <<"mykey">>, <<"my", "-", "key", "-", "run1">> }

\* keys a previous job may have saved
PriorKeys ==
    { getCacheKey(NoKey, <<"41">>), getCacheKey(NoKey, <<"42">>),
      <<"mykey">>, <<"my", "-", "key", "-", "run0">>, <<"my", "-", "key", "-", "run1">> }

PriorStores == { {} } \cup { {k} : k \in PriorKeys }
               \cup { {<<"my", "-", "key", "-", "run0">>, <<"my", "-", "key", "-", "run1">>} }

\* values the free-space query may report, in KiB (500 MiB, just below 3 GiB, 3 GiB)
DiskValues == { 500 * 1024, MIN_REQUIRED_SPACE - 1, MIN_REQUIRED_SPACE }

Count(e) == Cardinality({i \in 1..Len(log) : log[i] = e})

IndexOf(e) == CHOOSE i \in 1..Len(log) : log[i] = e

NoPost == [cacheKey |-> NoKey, timeoutMinutes |-> 0, compressionLevel |-> 0]

NoDisk == [df |-> "none", availableSpace |-> -1]

BkIdle == [pc |-> "idle", isCancelled |-> FALSE, archivePath |-> <<>>, level |-> 0,
           error |-> "none", zstd |-> "unchecked"]

NoBinary == [resolved |-> FALSE, cacheHit |-> FALSE]

NoOutputs == [cacheHit |-> "unset"]

NoCall == [fn |-> "none"]

Init ==
    /\ inputs \in [cacheBuilds : BOOLEAN, cacheKey : CustomKeys,
                   cacheCompression : Levels, cacheTimeoutMinutes : Timeouts]
    /\ runId \in RunIds
    /\ pc = "main"
    /\ failed = FALSE
    /\ exitCode = -1
    /\ store \in PriorStores
    /\ files = {}
    /\ complete = {}
    /\ volume \in {"absent", "stale"}
    /\ engine \in {"none", "stale"}
    /\ exported = FALSE
    /\ jobState = [CACHE_KEY |-> <<>>, CACHE_COMPRESSION |-> <<>>]
    /\ restoredKey = NoKey
    /\ post = NoPost
    /\ cachePath = <<>>
    /\ disk = NoDisk
    /\ bk = BkIdle
    /\ handlers = {}
    /\ signals = 0
    /\ alive = TRUE
    /\ timer = "none"
    /\ log = <<>>
    /\ binaryInfo = NoBinary
    /\ outputs = NoOutputs
    /\ fetched = "none"
    /\ call = NoCall

----
\* Main phase: run-action.ts, cache.ts setupDaggerCache, engine.ts

\* cache.restoreCache([cachePath], primaryKey, restoreKeys): the keys the store
\* may answer with; NoKey is a miss
RemoteFetch(st, primaryKey, restoreKeys) ==
    IF primaryKey \in st THEN {primaryKey}
    ELSE LET m == {k \in st : \E i \in 1..Len(restoreKeys) : IsPrefix(restoreKeys[i], k)}
         IN  IF m = {} THEN {NoKey} ELSE m

\* get-binary.getBinary: cacheHit tells whether the dagger binary was found in
\* the runner's tool cache
getBinary(found) == [resolved |-> TRUE, cacheHit |-> found]

\* runAction up to getBinary; a failed binary acquisition fails the job
GetBinary ==
    /\ pc = "main"
    /\ \E ok \in BOOLEAN :
        IF ~ok
        THEN /\ failed' = TRUE
             /\ pc' = "post"
             /\ log' = Append(log, "binary_failed")
             /\ binaryInfo' = binaryInfo
        ELSE /\ failed' = failed
             /\ pc' = IF inputs.cacheBuilds THEN "fetch" ELSE "save_state"
             /\ log' = log
             /\ \E found \in BOOLEAN : binaryInfo' = getBinary(found)
    /\ UNCHANGED <<call, fetched, outputs, inputs, runId, exitCode, store, files, complete, volume, engine,
                   exported, jobState, restoredKey, post, cachePath, disk, bk, handlers,
                   signals, alive, timer>>

\* engine.backupEngineVolume: what the pipeline of a compression level writes
ArchiveFormat(compressionLevel) == IF compressionLevel = 0 THEN "tar" ELSE "zstd"

\* engine.restoreEngineVolume: const isZstdCompressed
isZstdCompressed(archivePath) == EndsWith(archivePath, <<".tar", ".zst">>)

\* engine.restoreEngineVolume: the format its extraction pipeline decodes
InversePipeline(archivePath) == IF isZstdCompressed(archivePath) THEN "zstd" ELSE "tar"

\* mutant: a failed fetch leaves setupDaggerCache before the engine start
Fetch_ErrorSkipsStart ==
    /\ pc = "fetch"
    /\ LET path == getCacheArchivePath(inputs.cacheCompression)
           primaryKey == getCacheKey(inputs.cacheKey, runId)
           restoreKeys == getRestoreKeys(primaryKey)
       IN  \E ok \in BOOLEAN :
           \E matched \in RemoteFetch(store, primaryKey, restoreKeys) :
               IF ok /\ matched # NoKey
               THEN /\ restoredKey' = matched
                    /\ files' = files \cup {path}
                    /\ complete' = complete \cup {path}
                    /\ \E level \in Levels : fetched' = ArchiveFormat(level)
                    /\ pc' = "hydrate"
               ELSE /\ pc' = IF ok THEN "start" ELSE "save_state"
                    /\ UNCHANGED <<restoredKey, files, complete, fetched>>
    /\ log' = Append(log, "fetch")
    /\ UNCHANGED <<call, binaryInfo, outputs, inputs, runId, failed, exitCode, store, volume, engine, exported,
                   jobState, post, cachePath, disk, bk, handlers, signals, alive, timer>>

\* setupDaggerCache: keys and cache.restoreCache
Fetch ==
    /\ pc = "fetch"
    /\ LET path == getCacheArchivePath(inputs.cacheCompression)
           primaryKey == getCacheKey(inputs.cacheKey, runId)
           restoreKeys == getRestoreKeys(primaryKey)
       IN  \E ok \in BOOLEAN :
           \E matched \in RemoteFetch(store, primaryKey, restoreKeys) :
               IF ok /\ matched # NoKey
               THEN /\ restoredKey' = matched
                    /\ files' = files \cup {path}
                    /\ complete' = complete \cup {path}
                    /\ \E level \in Levels : fetched' = ArchiveFormat(level)
                    /\ pc' = "hydrate"
               ELSE /\ pc' = "start"
                    /\ UNCHANGED <<restoredKey, files, complete, fetched>>
    /\ log' = Append(log, "fetch")
    /\ UNCHANGED <<call, binaryInfo, outputs, inputs, runId, failed, exitCode, store, volume, engine, exported,
                   jobState, post, cachePath, disk, bk, handlers, signals, alive, timer>>

\* engine.restoreEngineVolume: the volume after docker volume create (createOk)
\* and the extraction pipeline (extractOk)
restoreEngineVolume(vol, createOk, extractOk) ==
    IF ~createOk THEN vol
    ELSE IF extractOk THEN "hydrated"
    ELSE "partial"

\* mutant: a failed hydration is not caught in setupDaggerCache and reaches
\* runAction's catch block
Hydrate_Uncaught ==
    /\ pc = "hydrate"
    /\ LET path == getCacheArchivePath(inputs.cacheCompression)
       IN  \E createOk, extractOk \in BOOLEAN :
           /\ extractOk => InversePipeline(path) = fetched
           /\ volume' = restoreEngineVolume(volume, createOk, extractOk)
           /\ IF createOk /\ extractOk
              THEN /\ files' = files \ {path}
                   /\ complete' = complete \ {path}
                   /\ log' = log \o <<"hydrate", "unlink">>
                   /\ pc' = "start"
                   /\ failed' = failed
              ELSE /\ UNCHANGED <<files, complete>>
                   /\ log' = log \o <<"hydrate", "hydrate_failed">>
                   /\ pc' = "post"
                   /\ failed' = TRUE
    /\ UNCHANGED <<call, fetched, binaryInfo, outputs, inputs, runId, exitCode, store, engine, exported, jobState,
                   restoredKey, post, cachePath, disk, bk, handlers, signals, alive, timer>>

\* setupDaggerCache on a hit: hydrate the volume, then unlink the archive
Hydrate ==
    /\ pc = "hydrate"
    /\ LET path == getCacheArchivePath(inputs.cacheCompression)
       IN  \E createOk, extractOk \in BOOLEAN :
           /\ extractOk => InversePipeline(path) = fetched
           /\ volume' = restoreEngineVolume(volume, createOk, extractOk)
           /\ IF createOk /\ extractOk
              THEN /\ files' = files \ {path}
                   /\ complete' = complete \ {path}
                   /\ log' = log \o <<"hydrate", "unlink">>
              ELSE /\ UNCHANGED <<files, complete>>
                   /\ log' = log \o <<"hydrate", "hydrate_failed">>
    /\ pc' = "start"
    /\ UNCHANGED <<call, fetched, binaryInfo, outputs, inputs, runId, failed, exitCode, store, engine, exported, jobState,
                   restoredKey, post, cachePath, disk, bk, handlers, signals, alive, timer>>

\* mutant: the stale container is not removed before docker run
startEngine_NoRemove(eng, rmOk, runOk) ==
    LET started == runOk /\ eng = "none"
    IN  [engine |-> IF started THEN "managed" ELSE eng, ok |-> started]

\* engine.startEngine: docker rm -f dagger-engine.dev (errors ignored), then
\* docker run -d --name dagger-engine.dev; the result is the container that
\* exists afterwards and whether docker run succeeded
startEngine(eng, rmOk, runOk) ==
    LET afterRm == IF rmOk THEN "none" ELSE eng
        started == runOk /\ afterRm = "none"
    IN  [engine |-> IF started THEN "managed" ELSE afterRm, ok |-> started]

\* mutant: the runner host is exported before the engine start is awaited
StartEngine_ExportsRegardless ==
    /\ pc = "start"
    /\ \E rmOk, runOk \in BOOLEAN :
        LET r == startEngine(engine, rmOk, runOk)
        IN  /\ engine' = r.engine
            /\ exported' = TRUE
            /\ volume' = IF r.ok /\ volume = "absent" THEN "empty" ELSE volume
            /\ log' = log \o <<"start">>
                           \o (IF ~rmOk /\ engine # "none" THEN <<"rm_failed">> ELSE <<>>)
                           \o (IF r.ok THEN <<"export">> ELSE <<"start_failed">>)
    /\ pc' = "save_state"
    /\ UNCHANGED <<call, fetched, binaryInfo, outputs, inputs, runId, failed, exitCode, store, files, complete, jobState,
                   restoredKey, post, cachePath, disk, bk, handlers, signals, alive, timer>>

\* setupDaggerCache: start the engine and export the runner host
StartEngine ==
    /\ pc = "start"
    /\ \E rmOk, runOk \in BOOLEAN :
        LET r == startEngine(engine, rmOk, runOk)
        IN  /\ engine' = r.engine
            /\ exported' = (exported \/ r.ok)
            /\ volume' = IF r.ok /\ volume = "absent" THEN "empty" ELSE volume
            /\ log' = log \o <<"start">>
                           \o (IF ~rmOk /\ engine # "none" THEN <<"rm_failed">> ELSE <<>>)
                           \o (IF r.ok THEN <<"export">> ELSE <<"start_failed">>)
    /\ pc' = "save_state"
    /\ UNCHANGED <<call, fetched, binaryInfo, outputs, inputs, runId, failed, exitCode, store, files, complete, jobState,
                   restoredKey, post, cachePath, disk, bk, handlers, signals, alive, timer>>

\* mutant: the compression level saved to the job state is always 0
SaveState_DropsLevel ==
    /\ pc = "save_state"
    /\ jobState' = [CACHE_KEY |-> inputs.cacheKey,
                    CACHE_COMPRESSION |-> toString(0)]
    /\ pc' = "exec"
    /\ UNCHANGED <<call, fetched, binaryInfo, outputs, inputs, runId, failed, exitCode, store, files, complete, volume,
                   engine, exported, restoredKey, post, cachePath, disk, bk, handlers,
                   signals, alive, timer, log>>

\* runAction: core.saveState of the cache key and the compression level
SaveState ==
    /\ pc = "save_state"
    /\ jobState' = [CACHE_KEY |-> inputs.cacheKey,
                    CACHE_COMPRESSION |-> toString(inputs.cacheCompression)]
    /\ pc' = "exec"
    /\ UNCHANGED <<call, fetched, binaryInfo, outputs, inputs, runId, failed, exitCode, store, files, complete, volume,
                   engine, exported, restoredKey, post, cachePath, disk, bk, handlers,
                   signals, alive, timer, log>>

\* Boolean.prototype.toString
BoolToString(b) == IF b THEN "true" ELSE "false"

\* set-outputs.setOutputs: the cache-hit output
setOutputs(cacheHit) == [cacheHit |-> BoolToString(cacheHit)]

\* mutant: the cache-hit output reports whether setupDaggerCache restored a key
ExecuteCommand_ReportsRestore ==
    /\ pc = "exec"
    /\ \E code \in {0, 1} :
        /\ exitCode' = code
        /\ failed' = (failed \/ code # 0)
    /\ pc' = "post"
    /\ log' = Append(log, "exec")
    /\ outputs' = setOutputs(restoredKey # NoKey)
    /\ UNCHANGED <<call, fetched, binaryInfo, inputs, runId, store, files, complete, volume, engine, exported,
                   jobState, restoredKey, post, cachePath, disk, bk, handlers, signals,
                   alive, timer>>

\* runAction: the build command, then setOutputs; a non-zero exit code fails
\* the job
ExecuteCommand ==
    /\ pc = "exec"
    /\ \E code \in {0, 1} :
        /\ exitCode' = code
        /\ failed' = (failed \/ code # 0)
    /\ pc' = "post"
    /\ log' = Append(log, "exec")
    /\ outputs' = setOutputs(binaryInfo.cacheHit)
    /\ UNCHANGED <<call, fetched, binaryInfo, inputs, runId, store, files, complete, volume, engine, exported,
                   jobState, restoredKey, post, cachePath, disk, bk, handlers, signals,
                   alive, timer>>

----
\* Post phase: post-action.ts, cache.ts saveDaggerCache, disk-space.ts

\* mutant: postAction calls saveDaggerCache whatever cache-builds says
PostStart_IgnoresCacheBuilds ==
    /\ pc = "post"
    /\ IF TRUE
       THEN /\ post' = [cacheKey |-> IF jobState.CACHE_KEY # <<>>
                                      THEN jobState.CACHE_KEY ELSE inputs.cacheKey,
                        timeoutMinutes |-> inputs.cacheTimeoutMinutes,
                        compressionLevel |-> readCompression(jobState.CACHE_COMPRESSION,
                                                             inputs.cacheCompression)]
            /\ pc' = "find"
       ELSE /\ post' = post
            /\ pc' = "done"
    /\ UNCHANGED <<call, fetched, binaryInfo, outputs, inputs, runId, failed, exitCode, store, files, complete, volume,
                   engine, exported, jobState, restoredKey, cachePath, disk, bk, handlers,
                   signals, alive, timer, log>>

\* postAction: the arguments of saveDaggerCache, read back from the job state
PostStart ==
    /\ pc = "post"
    /\ IF inputs.cacheBuilds
       THEN /\ post' = [cacheKey |-> IF jobState.CACHE_KEY # <<>>
                                      THEN jobState.CACHE_KEY ELSE inputs.cacheKey,
                        timeoutMinutes |-> inputs.cacheTimeoutMinutes,
                        compressionLevel |-> readCompression(jobState.CACHE_COMPRESSION,
                                                             inputs.cacheCompression)]
            /\ pc' = "find"
       ELSE /\ post' = post
            /\ pc' = "done"
    /\ UNCHANGED <<call, fetched, binaryInfo, outputs, inputs, runId, failed, exitCode, store, files, complete, volume,
                   engine, exported, jobState, restoredKey, cachePath, disk, bk, handlers,
                   signals, alive, timer, log>>

\* mutant: the finally block does not unlink the archive
Cleanup_Skipped(fs, path) == fs

\* saveDaggerCache, finally block: unlink the archive when cachePath is set
Cleanup(fs, path) == IF path # <<>> THEN fs \ {path} ELSE fs

\* engine.findEngineContainer: docker ps -a; null ("none") when the listing
\* fails or has no line
findEngineContainer(eng, psOk) == IF psOk THEN eng ELSE "none"

\* mutant: saveDaggerCache does not return when no container is found
FindEngine_ProceedsWithoutEngine ==
    /\ pc = "find"
    /\ alive
    /\ \E psOk \in BOOLEAN :
        IF findEngineContainer(engine, psOk) = "none"
        THEN /\ pc' = "stop"
             /\ UNCHANGED <<files, complete>>
             /\ log' = log \o <<"find", "not_found">>
        ELSE /\ pc' = "stop"
             /\ UNCHANGED <<files, complete>>
             /\ log' = Append(log, "find")
    /\ UNCHANGED <<call, fetched, binaryInfo, outputs, inputs, runId, failed, exitCode, store, volume, engine, exported,
                   jobState, restoredKey, post, cachePath, disk, bk, handlers, signals,
                   alive, timer>>

\* saveDaggerCache step 1: identify the engine; return when there is none
FindEngine ==
    /\ pc = "find"
    /\ alive
    /\ \E psOk \in BOOLEAN :
        IF findEngineContainer(engine, psOk) = "none"
        THEN /\ pc' = "done"
             /\ files' = Cleanup(files, cachePath)
             /\ complete' = Cleanup(complete, cachePath)
             /\ log' = log \o <<"find", "not_found", "persist_return">>
        ELSE /\ pc' = "stop"
             /\ UNCHANGED <<files, complete>>
             /\ log' = Append(log, "find")
    /\ UNCHANGED <<call, fetched, binaryInfo, outputs, inputs, runId, failed, exitCode, store, volume, engine, exported,
                   jobState, restoredKey, post, cachePath, disk, bk, handlers, signals,
                   alive, timer>>

\* what docker rm -f may do: remove the container ("ok"), fail with a message
\* that includes "No such container" (the container is gone), fail otherwise
RmOutcomes(eng) ==
    IF eng = "none" THEN {"ok", "no_such_container", "error"} ELSE {"ok", "error"}

\* mutant: an already removed container counts as a failure
stopEngine_AlreadyRemovedFails(eng, rm) ==
    [engine |-> IF rm = "ok" THEN "none" ELSE eng,
     commands |-> <<"docker rm -f">>,
     returned |-> (rm = "ok"),
     raised |-> FALSE]

\* engine.stopEngine: the container afterwards, the docker commands run, the
\* boolean returned, and whether an error escaped
stopEngine(eng, rm) ==
    [engine |-> IF rm = "ok" THEN "none" ELSE eng,
     commands |-> <<"docker rm -f">>,
     returned |-> (rm \in {"ok", "no_such_container"}),
     raised |-> FALSE]

\* saveDaggerCache steps 2 and 3: stop the engine, choose the archive path
StopEngine ==
    /\ pc = "stop"
    /\ alive
    /\ \E rm \in RmOutcomes(engine) : engine' = stopEngine(engine, rm).engine
    /\ cachePath' = getCacheArchivePath(post.compressionLevel)
    /\ pc' = "disk"
    /\ log' = Append(log, "stop")
    /\ UNCHANGED <<call, fetched, binaryInfo, outputs, inputs, runId, failed, exitCode, store, files, complete, volume,
                   exported, jobState, restoredKey, post, disk, bk, handlers, signals,
                   alive, timer>>

\* header line of df --output=avail
DfHeader == <<"Avail">>

\* what df may do: fail, print no value line, print a value that is not a
\* number, print a number (in KiB here)
DfOutcomes ==
    { [kind |-> "throw", throws |-> TRUE, stdout |-> <<>>],
      [kind |-> "noline", throws |-> FALSE, stdout |-> <<DfHeader>>],
      [kind |-> "nan", throws |-> FALSE, stdout |-> <<DfHeader, <<"x">>>>] }
    \cup { [kind |-> "num", throws |-> FALSE, stdout |-> <<DfHeader, toString(v)>>] :
             v \in DiskValues \cup {0} }

\* mutant: a value that is not a number is returned as it parsed
getAvailableDiskSpace_ReturnsNaN(df) ==
    IF df.throws THEN 0
    ELSE LET lines == TrimSplit(df.stdout)
             availableStr == IF Len(lines) < 2 THEN <<>> ELSE TrimLine(lines[2])
         IN  IF availableStr = <<>> THEN 0
             ELSE parseInt(availableStr)

\* disk-space.getAvailableDiskSpace: the second line of the output, parsed
getAvailableDiskSpace(df) ==
    IF df.throws THEN 0
    ELSE LET lines == TrimSplit(df.stdout)
             availableStr == IF Len(lines) < 2 THEN <<>> ELSE TrimLine(lines[2])
         IN  IF availableStr = <<>> THEN 0
             ELSE IF parseInt(availableStr) = NaN THEN 0
             ELSE parseInt(availableStr)

\* mutant: the test does not exempt 0
LowDiskSpace_NoZeroGuard(availableSpace) == availableSpace < MIN_REQUIRED_SPACE

\* saveDaggerCache step 4: the low-disk-space test
LowDiskSpace(availableSpace) ==
    availableSpace > 0 /\ availableSpace < MIN_REQUIRED_SPACE

\* mutant: the promise of backupEngineVolume is not awaited
CheckDiskSpace_BackupNotAwaited ==
    /\ pc = "disk"
    /\ alive
    /\ \E df \in DfOutcomes :
        /\ disk' = [df |-> df.kind, availableSpace |-> getAvailableDiskSpace(df)]
        /\ IF LowDiskSpace(getAvailableDiskSpace(df))
           THEN /\ pc' = "done"
                /\ files' = Cleanup(files, cachePath)
                /\ complete' = Cleanup(complete, cachePath)
                /\ log' = log \o <<"disk", "disk_skip", "persist_return">>
                /\ UNCHANGED <<bk, handlers, timer>>
           ELSE /\ pc' = "upload"
                /\ bk' = [pc |-> "inspect", isCancelled |-> FALSE,
                          archivePath |-> cachePath, level |-> post.compressionLevel,
                          error |-> "none", zstd |-> "unchecked"]
                /\ handlers' = {"SIGINT", "SIGTERM"}
                /\ timer' = IF post.timeoutMinutes > 0 THEN "pending" ELSE timer
                /\ log' = log \o <<"disk", "backup">>
                /\ UNCHANGED <<files, complete>>
    /\ UNCHANGED <<call, fetched, binaryInfo, outputs, inputs, runId, failed, exitCode, store, volume, engine, exported,
                   jobState, restoredKey, post, cachePath, signals, alive>>

\* saveDaggerCache steps 4 and 5: check the disk space; skip, or call
\* backupEngineVolume (which registers its signal handlers and starts
\* docker volume inspect) under withTimeout when timeoutMinutes > 0
CheckDiskSpace ==
    /\ pc = "disk"
    /\ alive
    /\ \E df \in DfOutcomes :
        /\ disk' = [df |-> df.kind, availableSpace |-> getAvailableDiskSpace(df)]
        /\ IF LowDiskSpace(getAvailableDiskSpace(df))
           THEN /\ pc' = "done"
                /\ files' = Cleanup(files, cachePath)
                /\ complete' = Cleanup(complete, cachePath)
                /\ log' = log \o <<"disk", "disk_skip", "persist_return">>
                /\ UNCHANGED <<bk, handlers, timer>>
           ELSE /\ pc' = "await_backup"
                /\ bk' = [pc |-> "inspect", isCancelled |-> FALSE,
                          archivePath |-> cachePath, level |-> post.compressionLevel,
                          error |-> "none", zstd |-> "unchecked"]
                /\ handlers' = {"SIGINT", "SIGTERM"}
                /\ timer' = IF post.timeoutMinutes > 0 THEN "pending" ELSE timer
                /\ log' = log \o <<"disk", "backup">>
                /\ UNCHANGED <<files, complete>>
    /\ UNCHANGED <<call, fetched, binaryInfo, outputs, inputs, runId, failed, exitCode, store, volume, engine, exported,
                   jobState, restoredKey, post, cachePath, signals, alive>>

----
\* engine.ts backupEngineVolume, running concurrently with the timer and the
\* signals; utils.ts withTimeout

BackupRunning == bk.pc \in {"inspect", "zstd", "pipeline"}

\* mutant: the finally block of backupEngineVolume does not remove the archive
\* of a cancelled backup
Settle_NoCancelCleanup(result, b, f, c) ==
    /\ bk' = [b EXCEPT !.pc = result]
    /\ handlers' = {}
    /\ IF pc = "await_backup"
       THEN IF result = "returned" /\ cachePath \in f
            THEN /\ pc' = "upload"
                 /\ files' = f
                 /\ complete' = c
                 /\ log' = Append(log, "backup_" \o result)
            ELSE /\ pc' = "done"
                 /\ files' = IF cachePath # <<>> THEN f \ {cachePath} ELSE f
                 /\ complete' = IF cachePath # <<>> THEN c \ {cachePath} ELSE c
                 /\ log' = log \o <<"backup_" \o result, "persist_return">>
       ELSE /\ pc' = pc
            /\ files' = f
            /\ complete' = c
            /\ log' = Append(log, "backup_" \o result)

\* backupEngineVolume settles with result ("returned" or "threw") after the
\* failure err ("none", "VolumeNotFound", "CompressorUnavailable",
\* "PipelineFailed") of its last external call, leaving the files f (the
\* complete ones c): its finally block deregisters the handlers
\* and removes the archive when cancelled.  When saveDaggerCache is still
\* awaiting the backup it continues in the same turn: to the upload when the
\* backup returned and the archive exists, otherwise through its catch and
\* finally blocks to its return.
Settle(result, b, f, c) ==
    LET f1 == IF bk.isCancelled THEN f \ {bk.archivePath} ELSE f
        c1 == IF bk.isCancelled THEN c \ {bk.archivePath} ELSE c
    IN  /\ bk' = [b EXCEPT !.pc = result]
        /\ handlers' = {}
        /\ IF pc = "await_backup"
           THEN IF result = "returned" /\ cachePath \in f1
                THEN /\ pc' = "upload"
                     /\ files' = f1
                     /\ complete' = c1
                     /\ log' = Append(log, "backup_" \o result)
                ELSE /\ pc' = "done"
                     /\ files' = Cleanup(f1, cachePath)
                     /\ complete' = Cleanup(c1, cachePath)
                     /\ log' = log \o <<"backup_" \o result, "persist_return">>
           ELSE /\ pc' = pc
                /\ files' = f1
                /\ complete' = c1
                /\ log' = Append(log, "backup_" \o result)

\* the shell pipeline starts: the redirection (level 0) or zstd -o (level > 0)
\* creates the archive file
StartPipeline(b) ==
    /\ bk' = [b EXCEPT !.pc = "pipeline"]
    /\ files' = files \cup {bk.archivePath}
    /\ complete' = complete \ {bk.archivePath}
    /\ log' = Append(log, "pipeline")
    /\ UNCHANGED <<pc, handlers>>

\* mutant: the result of docker volume inspect is ignored
BackupInspect_SkipsVolumeCheck ==
    /\ bk.pc = "inspect"
    /\ alive
    /\ \E dockerOk \in BOOLEAN :
        LET ok == TRUE
        IN  IF ~ok THEN Settle("threw", [bk EXCEPT !.error = "VolumeNotFound"], files, complete)
            ELSE IF bk.isCancelled THEN Settle("returned", bk, files, complete)
            ELSE IF bk.level = 0 THEN StartPipeline(bk)
            ELSE /\ bk' = [bk EXCEPT !.pc = "zstd"]
                 /\ log' = Append(log, "which_zstd")
                 /\ UNCHANGED <<pc, handlers, files, complete>>
    /\ UNCHANGED <<call, fetched, binaryInfo, outputs, inputs, runId, failed, exitCode, store, volume, engine, exported,
                   jobState, restoredKey, post, cachePath, disk, signals, alive, timer>>

\* docker volume inspect has finished
BackupInspect ==
    /\ bk.pc = "inspect"
    /\ alive
    /\ \E dockerOk \in BOOLEAN :
        LET ok == dockerOk /\ volume # "absent"
        IN  IF ~ok THEN Settle("threw", [bk EXCEPT !.error = "VolumeNotFound"], files, complete)
            ELSE IF bk.isCancelled THEN Settle("returned", bk, files, complete)
            ELSE IF bk.level = 0 THEN StartPipeline(bk)
            ELSE /\ bk' = [bk EXCEPT !.pc = "zstd"]
                 /\ log' = Append(log, "which_zstd")
                 /\ UNCHANGED <<pc, handlers, files, complete>>
    /\ UNCHANGED <<call, fetched, binaryInfo, outputs, inputs, runId, failed, exitCode, store, volume, engine, exported,
                   jobState, restoredKey, post, cachePath, disk, signals, alive, timer>>

\* mutant: the result of which zstd is ignored
BackupZstdCheck_IgnoresMissing ==
    /\ bk.pc = "zstd"
    /\ alive
    /\ \E ok \in BOOLEAN :
        LET b == [bk EXCEPT !.zstd = IF ok THEN "found" ELSE "missing"]
        IN  IF bk.isCancelled THEN Settle("returned", b, files, complete)
            ELSE StartPipeline(b)
    /\ UNCHANGED <<call, fetched, binaryInfo, outputs, inputs, runId, failed, exitCode, store, volume, engine, exported,
                   jobState, restoredKey, post, cachePath, disk, signals, alive, timer>>

\* which zstd has finished
BackupZstdCheck ==
    /\ bk.pc = "zstd"
    /\ alive
    /\ \E ok \in BOOLEAN :
        LET b == [bk EXCEPT !.zstd = IF ok THEN "found" ELSE "missing"]
        IN  IF ~ok THEN Settle("threw", [b EXCEPT !.error = "CompressorUnavailable"], files, complete)
            ELSE IF bk.isCancelled THEN Settle("returned", b, files, complete)
            ELSE StartPipeline(b)
    /\ UNCHANGED <<call, fetched, binaryInfo, outputs, inputs, runId, failed, exitCode, store, volume, engine, exported,
                   jobState, restoredKey, post, cachePath, disk, signals, alive, timer>>

\* mutant: without pipefail the status is that of the last stage
PipelineExit_LastStageOnly(tarOk, zstdOk) == zstdOk

\* exit status of the bash -c command: with set -o pipefail a pipeline fails
\* when any of its stages exits non-zero
PipelineExit(tarOk, zstdOk) == tarOk /\ zstdOk

\* mutant: a pipeline failure is escalated also when the backup was cancelled
BackupPipeline_EscalatesCancelled ==
    /\ bk.pc = "pipeline"
    /\ alive
    /\ \E tarOk, zstdOk, leftover \in BOOLEAN :
        /\ bk.level = 0 => zstdOk
        /\ LET ok == PipelineExit(tarOk, zstdOk)
               f == IF (tarOk /\ zstdOk) \/ leftover THEN files ELSE files \ {bk.archivePath}
               c == IF tarOk /\ zstdOk THEN complete \cup ({bk.archivePath} \cap files)
                                       ELSE complete \ {bk.archivePath}
           IN  IF ok THEN Settle("returned", bk, f, c)
               ELSE Settle("threw",
                           [bk EXCEPT !.error = "PipelineFailed"], f, c)
    /\ UNCHANGED <<call, fetched, binaryInfo, outputs, inputs, runId, failed, exitCode, store, volume, engine, exported,
                   jobState, restoredKey, post, cachePath, disk, signals, alive, timer>>

\* the shell pipeline has finished (at level 0 its only stage is tar): when
\* every stage exited zero the archive is complete (when its path still names
\* the file); otherwise a partial file may be left, and a failure is escalated
\* unless the backup was cancelled
BackupPipeline ==
    /\ bk.pc = "pipeline"
    /\ alive
    /\ \E tarOk, zstdOk, leftover \in BOOLEAN :
        /\ bk.level = 0 => zstdOk
        /\ LET ok == PipelineExit(tarOk, zstdOk)
               f == IF (tarOk /\ zstdOk) \/ leftover THEN files ELSE files \ {bk.archivePath}
               c == IF tarOk /\ zstdOk THEN complete \cup ({bk.archivePath} \cap files)
                                       ELSE complete \ {bk.archivePath}
           IN  IF ok THEN Settle("returned", bk, f, c)
               ELSE Settle(IF bk.isCancelled THEN "returned" ELSE "threw",
                           [bk EXCEPT !.error = "PipelineFailed"], f, c)
    /\ UNCHANGED <<call, fetched, binaryInfo, outputs, inputs, runId, failed, exitCode, store, volume, engine, exported,
                   jobState, restoredKey, post, cachePath, disk, signals, alive, timer>>

\* SIGINT or SIGTERM arrives during a backup: process.once runs signalHandler
\* and removes it for that signal; a signal without a handler terminates the
\* process
Signal ==
    /\ BackupRunning
    /\ alive
    /\ signals < MaxSignals
    /\ \E sig \in {"SIGINT", "SIGTERM"} :
        IF sig \in handlers
        THEN /\ bk' = [bk EXCEPT !.isCancelled = TRUE]
             /\ handlers' = handlers \ {sig}
             /\ alive' = alive
             /\ log' = Append(log, "signal")
        ELSE /\ alive' = FALSE
             /\ log' = Append(log, "killed")
             /\ UNCHANGED <<bk, handlers>>
    /\ signals' = signals + 1
    /\ UNCHANGED <<call, fetched, binaryInfo, outputs, inputs, runId, pc, failed, exitCode, store, files, complete, volume,
                   engine, exported, jobState, restoredKey, post, cachePath, disk, timer>>

\* mutant: the timer resolves the race instead of rejecting it, so that
\* saveDaggerCache goes on to the upload
TimerFires_Resolves ==
    /\ timer = "pending"
    /\ alive
    /\ timer' = "fired"
    /\ IF pc = "await_backup"
       THEN IF cachePath \in files
            THEN /\ pc' = "upload"
                 /\ log' = Append(log, "timeout")
                 /\ UNCHANGED <<files, complete>>
            ELSE /\ pc' = "done"
                 /\ log' = log \o <<"timeout", "persist_return">>
                 /\ UNCHANGED <<files, complete>>
       ELSE UNCHANGED <<pc, files, complete, log>>
    /\ UNCHANGED <<call, fetched, binaryInfo, outputs, inputs, runId, failed, exitCode, store, volume, engine, exported,
                   jobState, restoredKey, post, cachePath, disk, bk, handlers, signals, alive>>

\* mutant: the rejection of the timer does not reach saveDaggerCache
TimerFires_Ignored ==
    /\ timer = "pending"
    /\ alive
    /\ timer' = "fired"
    /\ UNCHANGED <<pc, files, complete, log>>
    /\ UNCHANGED <<call, fetched, binaryInfo, outputs, inputs, runId, failed, exitCode, store, volume, engine, exported,
                   jobState, restoredKey, post, cachePath, disk, bk, handlers, signals, alive>>

\* withTimeout's timer fires: when saveDaggerCache is still awaiting the race
\* it catches the rejection ("timed out") and returns through its finally block
TimerFires ==
    /\ timer = "pending"
    /\ alive
    /\ timer' = "fired"
    /\ IF pc = "await_backup"
       THEN /\ pc' = "done"
            /\ files' = Cleanup(files, cachePath)
            /\ complete' = Cleanup(complete, cachePath)
            /\ log' = log \o <<"timeout", "persist_return">>
       ELSE UNCHANGED <<pc, files, complete, log>>
    /\ UNCHANGED <<call, fetched, binaryInfo, outputs, inputs, runId, failed, exitCode, store, volume, engine, exported,
                   jobState, restoredKey, post, cachePath, disk, bk, handlers, signals, alive>>

\* cache.saveCache([cachePath], key): the store is immutable-write
RemoteSave(st, key, transportOk) ==
    IF key \in st \/ ~transportOk
    THEN [store |-> st, ok |-> FALSE]
    ELSE [store |-> st \cup {key}, ok |-> TRUE]

\* mutant: a failed upload is swallowed and the volume is pruned all the same
Upload_FailureStillPrunes ==
    /\ pc = "upload"
    /\ alive
    /\ \E transportOk \in BOOLEAN :
        LET r == RemoteSave(store, getCacheKey(post.cacheKey, runId), transportOk)
        IN  /\ store' = r.store
            /\ IF r.ok
               THEN /\ pc' = "prune"
                    /\ log' = Append(log, "save")
                    /\ UNCHANGED <<files, complete>>
               ELSE /\ pc' = "prune"
                    /\ log' = log \o <<"save", "save_failed">>
                    /\ UNCHANGED <<files, complete>>
    /\ UNCHANGED <<call, fetched, binaryInfo, outputs, inputs, runId, failed, exitCode, volume, engine, exported, jobState,
                   restoredKey, post, cachePath, disk, bk, handlers, signals, alive, timer>>

\* saveDaggerCache step 6: upload the archive; a rejected upload is caught and
\* saveDaggerCache returns through its finally block
Upload ==
    /\ pc = "upload"
    /\ alive
    /\ \E transportOk \in BOOLEAN :
        LET r == RemoteSave(store, getCacheKey(post.cacheKey, runId), transportOk)
        IN  /\ store' = r.store
            /\ IF r.ok
               THEN /\ pc' = "prune"
                    /\ log' = Append(log, "save")
                    /\ UNCHANGED <<files, complete>>
               ELSE /\ pc' = "done"
                    /\ files' = Cleanup(files, cachePath)
                    /\ complete' = Cleanup(complete, cachePath)
                    /\ log' = log \o <<"save", "save_failed", "persist_return">>
    /\ UNCHANGED <<call, fetched, binaryInfo, outputs, inputs, runId, failed, exitCode, volume, engine, exported, jobState,
                   restoredKey, post, cachePath, disk, bk, handlers, signals, alive, timer>>

\* engine.deleteEngineVolume: docker volume rm, errors reported as a warning
deleteEngineVolume(vol, rmOk) == IF rmOk THEN "absent" ELSE vol

\* saveDaggerCache step 7: prune the volume, then return through the finally block
Prune ==
    /\ pc = "prune"
    /\ alive
    /\ \E rmOk \in BOOLEAN : volume' = deleteEngineVolume(volume, rmOk)
    /\ pc' = "done"
    /\ files' = Cleanup(files, cachePath)
    /\ complete' = Cleanup(complete, cachePath)
    /\ log' = log \o <<"prune", "persist_return">>
    /\ UNCHANGED <<call, fetched, binaryInfo, outputs, inputs, runId, failed, exitCode, store, engine, exported, jobState,
                   restoredKey, post, cachePath, disk, bk, handlers, signals, alive, timer>>

Next ==
    \/ GetBinary
    \/ Fetch
    \/ Hydrate
    \/ StartEngine
    \/ SaveState
    \/ ExecuteCommand
    \/ PostStart
    \/ FindEngine
    \/ StopEngine
    \/ CheckDiskSpace
    \/ BackupInspect
    \/ BackupZstdCheck
    \/ BackupPipeline
    \/ Signal
    \/ TimerFires
    \/ Upload
    \/ Prune

Spec == Init /\ [][Next]_vars

----
\* Single calls of the key derivation, of stopEngine, of getAvailableDiskSpace
\* and of the compression-level parsing, for every argument within the bounds

\* longest custom key, in atoms
MaxKeyLen == 3

KeyAtoms == {"a", "b", HYPHEN}

\* every string of at most MaxKeyLen atoms; the empty one is "no custom key"
UnitKeys == UNION { [1..n -> KeyAtoms] : n \in 0..MaxKeyLen }

\* values of GITHUB_RUN_ID; the empty one is "unset"
UnitRunIds == { <<>>, <<"41">>, <<"42">> }

\* number of lines df may print
MaxDfLines == 3

\* lines df may print: empty, blank, the header, numbers with and without
\* blanks around them, a number followed by a letter, a word
DfLineValues ==
    { <<>>, <<" ">>, DfHeader, <<"7">>, <<" ", "4", "2", " ">>, <<"1", "2", "K">>, <<"x">> }

DfStdouts == UNION { [1..n -> DfLineValues] : n \in 0..MaxDfLines }

\* largest magnitude of the cache-compression input
MaxCompressionInput == 21

\* the decimal numeral of an integer
Numeral(n) == IF n < 0 THEN <<HYPHEN>> \o toString(0 - n) ELSE toString(n)

\* values of the cache-compression input: unset, integers, and two values
\* that are not integers
CompressionInputs ==
    { <<>>, <<"x">>, <<"3", ".", "7">> }
    \cup { Numeral(n) : n \in (0 - MaxCompressionInput)..MaxCompressionInput }

\* everything but call
jobVars == <<inputs, runId, pc, failed, exitCode, store, files, complete, volume,
             engine, exported, jobState, restoredKey, post, cachePath, disk, bk,
             handlers, signals, alive, timer, log, binaryInfo, outputs, fetched>>

UnitInit ==
    /\ call \in [fn : {"init"}, customKey : UnitKeys, runA : UnitRunIds,
                 runB : UnitRunIds, eng : {"none", "managed", "stale"}]
                \cup [fn : {"init_df"}, throws : BOOLEAN, stdout : DfStdouts]
                \cup [fn : {"init_inputs"}, raw : CompressionInputs]
    /\ inputs = [cacheBuilds |-> FALSE, cacheKey |-> NoKey,
                 cacheCompression |-> 0, cacheTimeoutMinutes |-> 0]
    /\ runId = <<>>
    /\ pc = "done"
    /\ failed = FALSE
    /\ exitCode = -1
    /\ store = {}
    /\ files = {}
    /\ complete = {}
    /\ volume = "absent"
    /\ engine = "none"
    /\ exported = FALSE
    /\ jobState = [CACHE_KEY |-> <<>>, CACHE_COMPRESSION |-> <<>>]
    /\ restoredKey = NoKey
    /\ post = NoPost
    /\ cachePath = <<>>
    /\ disk = NoDisk
    /\ bk = BkIdle
    /\ handlers = {}
    /\ signals = 0
    /\ alive = TRUE
    /\ timer = "none"
    /\ log = <<>>
    /\ binaryInfo = NoBinary
    /\ outputs = NoOutputs
    /\ fetched = "none"

\* setupDaggerCache "Determine keys", in two job contexts that differ in the
\* run id only
DeriveKeys ==
    /\ call.fn = "init"
    /\ LET primaryA == getCacheKey(call.customKey, call.runA)
           primaryB == getCacheKey(call.customKey, call.runB)
       IN  call' = [fn |-> "keys", customKey |-> call.customKey,
                    runA |-> call.runA, runB |-> call.runB,
                    primaryA |-> primaryA, restoreA |-> getRestoreKeys(primaryA),
                    primaryB |-> primaryB, restoreB |-> getRestoreKeys(primaryB)]
    /\ UNCHANGED jobVars

\* one call of stopEngine on the container call.eng
CallStopEngine ==
    /\ call.fn = "init"
    /\ \E rm \in RmOutcomes(call.eng) :
        call' = [fn |-> "stopEngine", eng |-> call.eng, rm |-> rm,
                 result |-> stopEngine(call.eng, rm)]
    /\ UNCHANGED jobVars

\* one call of getAvailableDiskSpace on what df did
CallGetAvailableDiskSpace ==
    /\ call.fn = "init_df"
    /\ call' = [fn |-> "df", throws |-> call.throws, stdout |-> call.stdout,
                result |-> getAvailableDiskSpace([throws |-> call.throws,
                                                  stdout |-> call.stdout])]
    /\ UNCHANGED jobVars

\* parseInputs in the main phase, saveState of the level, and the read back
\* in the post phase
CallParseInputs ==
    /\ call.fn = "init_inputs"
    /\ LET cacheCompression == parseCompression(call.raw)
           saved == toString(cacheCompression)
       IN  call' = [fn |-> "inputs", raw |-> call.raw,
                    cacheCompression |-> cacheCompression,
                    saved |-> saved,
                    compressionLevel |-> readCompression(saved, cacheCompression)]
    /\ UNCHANGED jobVars

UnitNext ==
    \/ DeriveKeys
    \/ CallStopEngine
    \/ CallGetAvailableDiskSpace
    \/ CallParseInputs

UnitSpec == UnitInit /\ [][UnitNext]_vars

----
\* One job of the rolling cache, with the steps that the scheduler of the
\* process guarantees: a pending timer fires, and the awaited upload and
\* volume deletion come back; nothing makes the backup pipeline finish

LiveInit ==
    /\ Init
    /\ inputs.cacheBuilds
    /\ inputs.cacheKey = NoKey
    /\ store = {getCacheKey(NoKey, <<"41">>)}
    /\ volume = "absent"
    /\ engine = "none"

LiveSpec ==
    /\ LiveInit
    /\ [][Next]_vars
    /\ WF_vars(TimerFires)
    /\ WF_vars(Upload)
    /\ WF_vars(Prune)

TypeOK ==
    /\ fetched \in {"none", "tar", "zstd"}
    /\ binaryInfo \in [resolved : BOOLEAN, cacheHit : BOOLEAN]
    /\ outputs.cacheHit \in {"unset", "true", "false"}
    /\ call = NoCall
    /\ pc \in {"main", "fetch", "hydrate", "start", "save_state", "exec", "post", "find",
               "stop", "disk", "await_backup", "upload", "prune", "done"}
    /\ bk.pc \in {"idle", "inspect", "zstd", "pipeline", "returned", "threw"}
    /\ bk.error \in {"none", "VolumeNotFound", "CompressorUnavailable", "PipelineFailed"}
    /\ bk.zstd \in {"unchecked", "found", "missing"}
    /\ timer \in {"none", "pending", "fired"}
    /\ files \subseteq {CACHE_ARCHIVE_NAME_TAR, CACHE_ARCHIVE_NAME_ZSTD}
    /\ complete \subseteq files

----
\* Properties

InLog(e) == \E i \in 1..Len(log) : log[i] = e

Before(a, b) == \E i, j \in 1..Len(log) : i < j /\ log[i] = a /\ log[j] = b

\* setupDaggerCache has returned
RestoreReturned == Count("fetch") = 1 /\ pc \notin {"fetch", "hydrate", "start"}

\* saveDaggerCache has been called / has returned
PersistCalled == Count("find") = 1

PersistReturned == Count("persist_return") = 1

\* the key saveDaggerCache saves under
PersistKey == getCacheKey(post.cacheKey, runId)

\* C1: whatever the outcomes of fetch, hydration, engine start, engine lookup,
\* engine stop, disk-space query, backup, upload and volume deletion, the job
\* is marked failed only by a failed binary acquisition or a non-zero exit
\* code of the build command, and a job with cache-builds enabled that has
\* ended has returned from setupDaggerCache (when it got there) and from
\* saveDaggerCache exactly once.
C1_CacheFailuresNeverFailJob ==
    /\ failed => (InLog("binary_failed") \/ exitCode > 0)
    /\ (pc = "done" /\ inputs.cacheBuilds /\ alive) =>
          /\ PersistReturned
          /\ (~InLog("binary_failed") => RestoreReturned)

C1_Witness ==
    /\ pc = "done"
    /\ ~failed
    /\ InLog("hydrate_failed")
    /\ InLog("save_failed")
    /\ PersistReturned

\* C2: setupDaggerCache calls startEngine exactly once on every path (hit,
\* miss, fetch error, hydration error), after the fetch and, when there is
\* one, the hydration.
C2_StartExactlyOnceAfterFetch ==
    /\ Count("start") <= 1
    /\ RestoreReturned => Count("start") = 1
    /\ Count("start") = 1 =>
          /\ Before("fetch", "start")
          /\ ~Before("start", "fetch")
          /\ ~Before("start", "hydrate")
          /\ (restoredKey # NoKey => Before("hydrate", "start"))

C2_Witness ==
    /\ RestoreReturned
    /\ InLog("hydrate_failed")
    /\ Count("start") = 1

\* C3: saveDaggerCache called with the key setupDaggerCache restored from
\* runs no backup and makes no call of the remote store's save.
C3_NoWriteUnderRestoredKey ==
    (PersistCalled /\ restoredKey # NoKey /\ PersistKey = restoredKey) =>
        (Count("backup") = 0 /\ Count("save") = 0)

\* C4: when the disk-space query reports a value above 0 and below 3 GiB,
\* saveDaggerCache runs no backup, makes no save, has returned, and has not
\* failed the job.
C4_LowDiskSkips ==
    (disk.availableSpace > 0 /\ disk.availableSpace < 3 * 1024 * 1024) =>
        /\ Count("backup") = 0
        /\ Count("save") = 0
        /\ bk.pc = "idle"
        /\ PersistReturned
        /\ (failed => (InLog("binary_failed") \/ exitCode > 0))

C4_Witness ==
    /\ disk.availableSpace = 500 * 1024
    /\ pc = "done"
    /\ ~failed

C6_TimeoutIsSoft ==
    InLog("timeout") =>
        /\ post.timeoutMinutes > 0
        /\ pc = "done"
        /\ PersistReturned
        /\ Count("save") = 0
        /\ Count("prune") = 0
        /\ (failed => (InLog("binary_failed") \/ exitCode > 0))

C6_Witness ==
    /\ InLog("timeout")
    /\ bk.pc = "pipeline"
    /\ pc = "done"
    /\ ~failed

\* C7: once saveDaggerCache has returned after a timeout, no file exists at
\* the archive path, whatever the backup that lost the race does afterwards.
C7_NoArchiveAfterTimeout ==
    (InLog("timeout") /\ PersistReturned) => cachePath \notin files

\* C8: a backup that observed a signal (before the volume check finished,
\* before the pipeline started, or while the pipeline ran) has left no file at
\* the archive path when it returns or throws.
C8_NoArchiveAfterCancel ==
    (bk.pc \in {"returned", "threw"} /\ bk.isCancelled) => bk.archivePath \notin files

C8_Witness ==
    /\ bk.pc = "returned"
    /\ bk.isCancelled
    /\ Before("pipeline", "signal")
    /\ bk.archivePath \notin files

\* C9: at the step in which saveDaggerCache returns after having called the
\* backup, no file exists at the archive path, whether the backup and the
\* upload succeeded or failed.
C9_ArchiveRemovedAtReturn ==
    [][(pc # "done" /\ pc' = "done" /\ Count("backup") = 1) => cachePath' \notin files']_vars

C9_Witness ==
    /\ pc = "done"
    /\ Count("backup") = 1
    /\ InLog("save_failed")
    /\ cachePath \notin files

\* C10: when setupDaggerCache has returned after a fetch that produced the
\* local archive, the archive has been deleted, whether or not the hydration
\* succeeded; and a job that ends without a backup leaves no archive on disk.
C10_RestoreDeletesArchive ==
    /\ (restoredKey # NoKey /\ pc \in {"save_state", "exec", "post"}) =>
          getCacheArchivePath(inputs.cacheCompression) \notin files
    /\ (pc = "done" /\ Count("backup") = 0) => files = {}

\* C11: saveDaggerCache is called only in a job whose setupDaggerCache has
\* returned and whose build command has been executed, and setupDaggerCache
\* never fetches after saveDaggerCache was called.
C11_PersistOnlyAfterRunning ==
    /\ PersistCalled => (RestoreReturned /\ InLog("exec"))
    /\ ~Before("find", "fetch")

\* C12: inside saveDaggerCache the engine stop, the disk-space check, the
\* backup, the upload and the volume deletion each happen at most once and in
\* this order; the upload starts only after backupEngineVolume has returned
\* and the deletion only after a successful upload.
C12_PersistStepsInOrder ==
    /\ \A e \in {"stop", "disk", "backup", "save", "prune"} : Count(e) <= 1
    /\ InLog("stop") => Before("find", "stop")
    /\ InLog("disk") => Before("stop", "disk")
    /\ InLog("backup") => (Before("disk", "backup") /\ ~InLog("disk_skip"))
    /\ (pc = "upload" \/ InLog("save")) =>
          /\ bk.pc = "returned"
          /\ Before("backup", "backup_returned")
          /\ ~Before("save", "backup_returned")
    /\ (pc = "prune" \/ InLog("prune")) =>
          /\ InLog("save")
          /\ ~InLog("save_failed")
          /\ ~Before("prune", "save")

C12_Witness ==
    /\ pc = "done"
    /\ InLog("prune")
    /\ PersistReturned

\* C13: while the backup pipeline started by saveDaggerCache is running, no
\* engine container exists.
C13_EngineStoppedDuringBackup ==
    bk.pc = "pipeline" => engine = "none"

C15_CompressorCheck ==
    /\ bk.level = 0 => (bk.zstd = "unchecked" /\ ~InLog("which_zstd"))
    /\ (bk.level > 0 /\ InLog("pipeline")) =>
          (bk.zstd = "found" /\ Before("which_zstd", "pipeline"))
    /\ bk.zstd = "missing" =>
          /\ bk.pc = "threw"
          /\ bk.error = "CompressorUnavailable"
          /\ ~InLog("pipeline")
          /\ Count("save") = 0

C15_Witness ==
    /\ bk.zstd = "missing"
    /\ bk.level > 0
    /\ PersistReturned

\* C16: the upload is only made of an archive written by a pipeline of this
\* backup whose stages all exited zero; when a stage exits non-zero the backup
\* fails and saveDaggerCache uploads nothing.
C16_OnlyCompleteArchiveSaved ==
    /\ pc = "upload" =>
          /\ cachePath \in complete
          /\ bk.error = "none"
          /\ Before("pipeline", "backup_returned")
    /\ InLog("save") => (bk.error = "none" /\ Before("pipeline", "save"))
    /\ bk.error = "PipelineFailed" =>
          /\ Count("save") = 0
          /\ pc # "upload"
          /\ (bk.pc = "threw" \/ bk.isCancelled)

C16_Witness ==
    /\ bk.error = "PipelineFailed"
    /\ bk.pc = "threw"
    /\ bk.level > 0
    /\ PersistReturned

\* C17: when saveDaggerCache has returned, the SIGINT and SIGTERM handlers of
\* backupEngineVolume are no longer registered.
C17_HandlersOffAtReturn ==
    PersistReturned => handlers = {}

\* C18: a pipeline failure after a cancellation signal makes
\* backupEngineVolume return normally, and saveDaggerCache then neither
\* uploads nor deletes the volume.
C18_CancelledFailureNotEscalated ==
    (bk.error = "PipelineFailed" /\ bk.isCancelled) =>
        /\ bk.pc = "returned"
        /\ pc \notin {"upload", "prune"}
        /\ Count("save") = 0
        /\ Count("prune") = 0

C18_Witness ==
    /\ bk.error = "PipelineFailed"
    /\ bk.isCancelled
    /\ pc = "done"
    /\ ~InLog("timeout")

\* C19: the container name holds at most one engine; startEngine removes the
\* container of that name before it runs the new one, so after a successful
\* start the container is the one just launched, and a stale container
\* survives startEngine only when its removal failed.
C19_OneEngineAfterStart ==
    (InLog("start") /\ pc = "save_state") =>
        /\ InLog("export") <=> engine = "managed"
        /\ engine = "stale" => InLog("rm_failed")

C19_Witness ==
    /\ pc = "save_state"
    /\ InLog("export")
    /\ engine = "managed"
    /\ restoredKey # NoKey

\* C20: setupDaggerCache exports the runner host only after startEngine has
\* succeeded; when startEngine fails nothing is exported, and the build
\* command runs with the export only while the managed engine exists.
C20_ExportOnlyAfterStart ==
    /\ exported => (Before("start", "export") /\ ~InLog("start_failed"))
    /\ InLog("start_failed") => ~exported
    /\ (exported /\ pc \in {"save_state", "exec"}) => engine = "managed"

C20_Witness ==
    /\ InLog("start_failed")
    /\ ~exported
    /\ pc = "exec"

\* C21: stopEngine runs the single command docker rm -f; it returns true when
\* the removal succeeded or failed because the container was already gone,
\* false on every other failure, and no error escapes it.
C21_StopEngineResult ==
    call.fn = "stopEngine" =>
        /\ call.result.commands = <<"docker rm -f">>
        /\ ~call.result.raised
        /\ call.result.returned <=> (call.rm \in {"ok", "no_such_container"})
        /\ call.rm = "ok" => call.result.engine = "none"
        /\ call.rm # "ok" => call.result.engine = call.eng

C21_Witness ==
    /\ call.fn = "stopEngine"
    /\ call.rm = "no_such_container"
    /\ call.result.returned

\* C22: when findEngineContainer finds no container, saveDaggerCache returns
\* at once: no stop, no disk-space query, no backup, no save, no volume
\* deletion, and the step leaves store, volume, engine and files as they were.
C22_NoEngineNoOp ==
    /\ [](InLog("not_found") =>
            /\ PersistReturned
            /\ \A e \in {"stop", "disk", "backup", "pipeline", "save", "prune"} : ~InLog(e)
            /\ bk = BkIdle
            /\ disk = NoDisk
            /\ cachePath = <<>>
            /\ handlers = {}
            /\ timer = "none")
    /\ [][(pc = "find" /\ pc' = "done") =>
             /\ InLog("not_found")'
             /\ UNCHANGED <<store, volume, engine, files, complete>>]_vars

C22_Witness ==
    /\ InLog("not_found")
    /\ engine # "none"
    /\ volume # "absent"
    /\ pc = "done"

\* C23: setupDaggerCache calls restoreEngineVolume if and only if the fetch
\* returned a matched key, and after a miss the engine is started on an empty
\* volume.
C23_HydrateIffHit ==
    /\ (InLog("fetch") /\ pc \notin {"fetch", "hydrate"}) =>
          (InLog("hydrate") <=> restoredKey # NoKey)
    /\ (pc = "save_state" /\ InLog("fetch") /\ restoredKey = NoKey /\ InLog("export")) =>
          volume = "empty"

\* C24 as stated: after setOutputs the cache-hit output is "true" exactly
\* when setupDaggerCache restored from a matched key.
C24_CacheHitReportsRestore ==
    (outputs.cacheHit # "unset" /\ inputs.cacheBuilds) =>
        (outputs.cacheHit = "true" <=> restoredKey # NoKey)

\* C24 amended: the cache-hit output is the cacheHit of getBinary (the dagger
\* binary was found in the tool cache), whatever setupDaggerCache restored.
C24_CacheHitReportsBinary ==
    /\ outputs.cacheHit # "unset" =>
          /\ InLog("exec")
          /\ outputs.cacheHit = BoolToString(binaryInfo.cacheHit)
    /\ InLog("exec") => outputs.cacheHit # "unset"

C24_Witness ==
    /\ outputs.cacheHit = "false"
    /\ restoredKey # NoKey
    /\ InLog("hydrate")
    /\ ~InLog("hydrate_failed")

\* C25: without a custom key, two job contexts that differ in the run id only
\* get different primary keys and the same restore keys.
C25_RunIdOnlyInPrimaryKey ==
    (call.fn = "keys" /\ call.customKey = NoKey /\ call.runA # call.runB) =>
        /\ call.primaryA # call.primaryB
        /\ call.restoreA = call.restoreB
        /\ Len(call.restoreA) = 1

C25_Witness ==
    /\ call.fn = "keys"
    /\ call.customKey = NoKey
    /\ call.runA = <<"41">>
    /\ call.runB = <<"42">>

\* C26: for a custom key with a hyphen the restore keys are the one key made
\* of what precedes the last hyphen; for a custom key without a hyphen there
\* is no restore key.
C26_CustomRestoreKeys ==
    (call.fn = "keys" /\ call.customKey # NoKey) =>
        LET k == call.customKey
        IN  /\ call.primaryA = k
            /\ Len(call.restoreA) <= 1
            /\ IF \E i \in 1..Len(k) : k[i] = HYPHEN
               THEN \E n \in 0..(Len(k) - 1) :
                       /\ k[n + 1] = HYPHEN
                       /\ \A i \in (n + 2)..Len(k) : k[i] # HYPHEN
                       /\ call.restoreA = << SubSeq(k, 1, n) >>
               ELSE call.restoreA = <<>>

C26_Witness ==
    /\ call.fn = "keys"
    /\ call.customKey = <<"a", HYPHEN, HYPHEN>>
    /\ call.restoreA = << <<"a", HYPHEN>> >>

\* C27: saveDaggerCache gets the key and the compression level that
\* setupDaggerCache got in the same job: a custom key verbatim, and after a
\* main phase that came to saveState, the values read back from the job state.
C27_PersistUsesRestoreArguments ==
    (inputs.cacheBuilds /\ (pc = "find" \/ PersistCalled)) =>
        /\ PersistKey = getCacheKey(inputs.cacheKey, runId)
        /\ inputs.cacheKey # NoKey => PersistKey = inputs.cacheKey
        /\ post.compressionLevel = inputs.cacheCompression
        /\ cachePath # <<>> => cachePath = getCacheArchivePath(inputs.cacheCompression)
        /\ bk.pc # "idle" => bk.level = inputs.cacheCompression
        /\ InLog("exec") =>
              /\ jobState.CACHE_KEY = inputs.cacheKey
              /\ post.compressionLevel = parseInt(jobState.CACHE_COMPRESSION)

C27_Witness ==
    /\ InLog("save")
    /\ ~InLog("save_failed")
    /\ InLog("exec")
    /\ inputs.cacheKey # NoKey
    /\ inputs.cacheCompression > 0

\* run ids of the jobs that saved before this one
EarlierRunIds == { <<"41">>, <<"42">> } \ {runId}

\* every entry of the store was saved by an earlier job under its
\* auto-derived key
EarlierJobsAutoKeyed ==
    \A k \in store : \E r \in EarlierRunIds : k = getCacheKey(NoKey, r)

\* C28: with auto-derived keys and run ids that no earlier job had, the key
\* of the upload is not in the store, so the save is rejected only by a
\* transport failure.
C28_RollingKeyIsFresh ==
    (inputs.cacheKey = NoKey /\ pc = "upload" /\ EarlierJobsAutoKeyed) =>
        /\ PersistKey \notin store
        /\ RemoteSave(store, PersistKey, TRUE).ok
        /\ restoredKey # PersistKey

C28_Witness ==
    /\ inputs.cacheKey = NoKey
    /\ pc = "prune"
    /\ store = {getCacheKey(NoKey, <<"41">>), getCacheKey(NoKey, runId)}
    /\ restoredKey = getCacheKey(NoKey, <<"41">>)

C30_DisabledDoesNothing ==
    ~inputs.cacheBuilds =>
        /\ \A e \in {"fetch", "hydrate", "start", "export", "find", "stop", "disk",
                     "backup", "pipeline", "save", "prune"} : ~InLog(e)
        /\ ~exported
        /\ restoredKey = NoKey
        /\ post = NoPost
        /\ bk = BkIdle
        /\ handlers = {}
        /\ files = {}

C30_Witness ==
    /\ ~inputs.cacheBuilds
    /\ pc = "done"
    /\ InLog("exec")
    /\ engine = "stale"
    /\ store # {}

\* C31: getAvailableDiskSpace returns a number for everything df may do: 0
\* when df fails, prints no second line, a blank one or one that does not
\* start with a number, and otherwise the number that line starts with.
C31_DiskSpaceNeverRaises ==
    call.fn = "df" =>
        LET lines == TrimSplit(call.stdout)
            value == IF Len(lines) < 2 THEN <<>> ELSE TrimLine(lines[2])
            digits == {i \in 1..Len(value) : \A j \in 1..i : DigitValue(value[j]) # -1}
        IN  /\ call.result \in Nat
            /\ call.throws => call.result = 0
            /\ (~call.throws /\ digits = {}) => call.result = 0
            /\ (~call.throws /\ digits # {}) =>
                  toString(call.result) = SubSeq(value, 1, Cardinality(digits))

C31_Witness ==
    /\ call.fn = "df"
    /\ ~call.throws
    /\ call.stdout = <<DfHeader, <<" ", "4", "2", " ">>>>
    /\ call.result = 42

\* C32: with a timeout the wait for the backup ends: saveDaggerCache returns
\* (or the process has been terminated) even when the pipeline never
\* finishes; without a timeout no timer is armed and the wait ends only when
\* the backup settles.
C32_TimeoutBoundsBackup ==
    /\ (pc = "await_backup" /\ post.timeoutMinutes > 0) ~> (PersistReturned \/ ~alive)
    /\ [](pc = "await_backup" => (timer = "pending" <=> post.timeoutMinutes > 0))
    /\ [](post.timeoutMinutes = 0 => timer = "none")
    /\ [][(pc = "await_backup" /\ timer = "none" /\ pc' # pc) =>
             bk'.pc \in {"returned", "threw"}]_vars

C32_Witness ==
    /\ PersistReturned
    /\ InLog("timeout")
    /\ BackupRunning
    /\ alive

\* C33: when setupDaggerCache has started the engine, the volume is not one
\* that a failed hydration left partially extracted.
C33_NoStartOnPartialVolume ==
    (InLog("start") /\ engine = "managed" /\ pc \in {"save_state", "exec"}) =>
        volume # "partial"

\* C34: for every level 0..19 restoreEngineVolume decodes, from the path of
\* that level, the format backupEngineVolume writes at that level; and the
\* format it decodes from the path of the restoring job is the format of the
\* archive that was fetched, whatever level the saving job had.
C34_RestoreInvertsBackup ==
    /\ \A level \in 0..19 :
          InversePipeline(getCacheArchivePath(level)) = ArchiveFormat(level)
    /\ InLog("hydrate") =>
          InversePipeline(getCacheArchivePath(inputs.cacheCompression)) = fetched

\* C35: a backup of a volume that does not exist throws VolumeNotFound
\* before which zstd and before the pipeline, so that no archive exists, and
\* saveDaggerCache neither uploads nor deletes the volume.
C35_VolumeNotFoundFirst ==
    /\ bk.error = "VolumeNotFound" =>
          /\ bk.pc = "threw"
          /\ bk.zstd = "unchecked"
          /\ ~InLog("which_zstd")
          /\ ~InLog("pipeline")
          /\ bk.archivePath \notin files
          /\ Count("save") = 0
          /\ Count("prune") = 0
    /\ (InLog("backup") /\ volume = "absent" /\ ~InLog("prune")) =>
          /\ bk.pc \in {"inspect", "threw"}
          /\ bk.pc = "threw" => bk.error = "VolumeNotFound"

C35_Witness ==
    /\ bk.error = "VolumeNotFound"
    /\ volume = "absent"
    /\ bk.level > 0
    /\ PersistReturned

\* C36: no signal terminates the process while the backup is in progress,
\* and a terminated process has left no archive behind.
C36_SignalsNeverKillBackup ==
    InLog("killed") => (~BackupRunning /\ bk.archivePath \notin files)

\* C37: when saveDaggerCache has returned, backupEngineVolume is not running.
C37_NoBackupAfterReturn ==
    PersistReturned => ~BackupRunning

\* C38: when saveDaggerCache has returned, the timer of withTimeout is not
\* pending.
C38_TimerClearedAtReturn ==
    PersistReturned => timer # "pending"

\* C39: for every integer value of the cache-compression input the level
\* parseInputs yields is the value clamped into 0..19, and the level the post
\* phase reads back from the job state is the same.
C39_LevelClamped ==
    \A n \in (0 - MaxCompressionInput)..MaxCompressionInput :
        (call.fn = "inputs" /\ call.raw = Numeral(n)) =>
            /\ call.cacheCompression \in 0..19
            /\ call.cacheCompression = (IF n < 0 THEN 0 ELSE IF n > 19 THEN 19 ELSE n)
            /\ call.compressionLevel = call.cacheCompression

C39_Witness ==
    /\ call.fn = "inputs"
    /\ call.raw = <<"2", "1">>
    /\ call.cacheCompression = 19
    /\ call.saved = <<"1", "9">>
    /\ call.compressionLevel = 19

====
